---- MODULE Spec2Model ----
(***************************************************************************)
(* ArtCanvas.js: the layer stack, the interaction mode state machine and   *)
(* the per-layer path list / transform replay engine.                      *)
(*                                                                         *)
(* Layer indices are 0-based as in the source; the layer at index i is     *)
(* layers[i + 1].  An operation that raises a TypeError leaves the         *)
(* assignments it made before the throw in place and records the throw in  *)
(* err.  op, calls and err observe the last operation: its name and        *)
(* arguments, the host callbacks it invoked, and whether it threw.         *)
(***************************************************************************)
EXTENDS Integers, Sequences, FiniteSets, TLC

VARIABLES
    mode,        \* ArtCanvas.mode
    figure,      \* ArtCanvas.figure
    transform,   \* ArtCanvas.transform
    textStyle,   \* ArtCanvas.textStyle (undefined until setTextStyle)
    layers,      \* ArtCanvas.layers : sequence of Canvas records
    activeLayer, \* ArtCanvas.activeLayer (0-based, may leave the range)
    isDown,      \* closure variable isDown
    imagedata,   \* closure variable imagedata (null or a pixel snapshot)
    textbox,     \* the <input type="text"> of the container, if any
    attached,    \* ids of the canvas elements appended to the container
    nextId,      \* identity of the next Canvas object constructed
    callbacks,   \* ArtCanvas.callbacks : own property name -> handler
    gest,        \* history of the current / last pointer gesture
    op,          \* last operation and its arguments
    calls,       \* host callbacks invoked by the last operation
    err,         \* "none", or the error the last operation raised
    started,     \* a drawstart callback was invoked and no drawend since
    left         \* operations left in the run's budget

vars == <<mode, figure, transform, textStyle, layers, activeLayer, isDown,
          imagedata, textbox, attached, nextId, callbacks, gest, op, calls, err,
          started, left>>

----------------------------------------------------------------------------
(* Bounds of the model *)

\* operations in one run of each specification
MaxOps == 4
MaxLayerOps == 4
MaxAddRemoveOps == 6
MaxSelectorOps == 4
MaxGestureOps == 4
MaxPointerOps == 5
MaxTextOps == 5
MaxDrawOps == 6
MaxTransformOps == 5
MaxFrameOps == 4
MaxCallbackOps == 3
\* largest layer number passed to the layer operations
MaxIndex == 2

LayerArgs == -1..MaxIndex

----------------------------------------------------------------------------
(* Enumerations *)

ModeHAND == "hand"
ModeFIGURE == "figure"
ModeTEXT == "text"
ModeTOOL == "tool"
ModeTRANSFORM == "transform"
Modes == {ModeHAND, ModeFIGURE, ModeTEXT, ModeTRANSFORM}

FigureKinds == {"rectangle", "circle", "line"}
TransformKinds == {"translate", "scale", "rotate"}

ModeArgs == Modes \cup {ModeTOOL, "bogus", "FIGURE"}
FigureArgs == FigureKinds \cup {"hexagon", "LINE"}
TransformArgs == TransformKinds \cup {"skew", "SCALE"}

\* String.prototype.toLowerCase on the strings the model passes
ToLowerCase(s) ==
    CASE s = "FIGURE" -> "figure"
      [] s = "LINE" -> "line"
      [] s = "SCALE" -> "scale"
      [] OTHER -> s

----------------------------------------------------------------------------
(* Geometry primitives *)

Point(px, py) == [x |-> px, y |-> py]

getOffsetPoint(p1, p2) == Point(p2.x - p1.x, p2.y - p1.y)

\* Math.sqrt(dx^2 + dy^2) is kept as its square, an exact integer
getDistanceSq(p1, p2) ==
    LET o == getOffsetPoint(p1, p2) IN o.x * o.x + o.y * o.y

\* a Rectangle constructor that stores the width and height it is given
RectangleUnclamped(t, l, w, h) ==
    [k |-> "rect", top |-> t, left |-> l, width |-> w, height |-> h]

\* function Rectangle(top, left, width, height)
Rectangle(t, l, w, h) ==
    [k |-> "rect", top |-> t, left |-> l,
     width |-> IF w >= 0 THEN w ELSE 0,
     height |-> IF h >= 0 THEN h ELSE 0]

\* function Circle(centerX, centerY, radius), radius given by its square
Circle(cx, cy, rsq) ==
    [k |-> "circle", centerX |-> cx, centerY |-> cy,
     radiusSq |-> IF rsq >= 0 THEN rsq ELSE 0]

Line(s, e) == [k |-> "line", startPoint |-> s, endPoint |-> e]

Text(t, p, ts) == [k |-> "text", text |-> t, point |-> p, textStyle |-> ts]

\* an array of Point pushed by the START handler; by is the mode that
\* pushed it (an annotation: the source array carries no such tag)
PointList(ps, m) == [k |-> "pts", pts |-> ps, by |-> m]

----------------------------------------------------------------------------
(* Rationals for the scale amounts (1 + offset / canvas.width) *)

RECURSIVE Gcd(_, _)
Gcd(a, b) == IF b = 0 THEN a ELSE Gcd(b, a % b)

Abs(a) == IF a < 0 THEN -a ELSE a

Rat(n, d) ==
    LET g == Gcd(Abs(n), Abs(d))
        s == IF d < 0 THEN -1 ELSE 1
    IN  [n |-> s * (n \div g), d |-> s * (d \div g)]

\* an angle is kept as the reduced direction (dy, dx) it is the atan2 of;
\* atan2(0, 0) = atan2(0, dx > 0) = 0
Angle(dy, dx) ==
    IF dy = 0 /\ dx >= 0 THEN [dy |-> 0, dx |-> 1]
    ELSE LET g == Gcd(Abs(dy), Abs(dx)) IN [dy |-> dy \div g, dx |-> dx \div g]

\* the angle of a rotation given in degrees (public rotate)
DegreeAngle(d) ==
    CASE d = 0 -> Angle(0, 1)
      [] d = 45 -> Angle(1, 1)
      [] d = 90 -> Angle(1, 0)
      [] d = 180 -> Angle(0, -1)
      [] d = -90 -> Angle(-1, 0)

----------------------------------------------------------------------------
(* Canvas: one layer *)

DefaultFillStyle == "rgba(0, 0, 0, 0.0)"
DefaultStrokeStyle == "rgba(0, 0, 0, 1.0)"

\* a parsed number (parseFloat), or NaN
Num(v) == [ok |-> TRUE, v |-> v]
NaN == [ok |-> FALSE]

IdentityTransforms ==
    [translate |-> [x |-> 0, y |-> 0],
     scale |-> [x |-> Rat(1, 1), y |-> Rat(1, 1)],
     skew |-> [x |-> 0, y |-> 0],
     rotate |-> Angle(0, 1)]

\* new ArtCanvas.Canvas(container, canvas, width, height, zIndex)
Canvas(id, zIndex) ==
    [id |-> id, zIndex |-> zIndex, visibility |-> "",
     fillStyle |-> DefaultFillStyle, strokeStyle |-> DefaultStrokeStyle,
     lineWidth |-> 1,
     paths |-> <<>>, transforms |-> IdentityTransforms,
     surface |-> <<>>, saved |-> 0]

\* The surface is the sequence of primitives drawn on it since it was last
\* cleared, each with the mapping (the sequence of context.transform calls
\* after setTransform(1, 0, 0, 1, 0, 0)) in effect when it was drawn.  The
\* mapping is the identity, <<>>, outside Canvas.transform: every
\* setTransform lies between a save() and its restore().
Seg(a, b, m) == [p |-> "seg", a |-> a, b |-> b, m |-> m]
RectPrim(x, y, w, h, m) == [p |-> "rect", x |-> x, y |-> y, w |-> w, h |-> h, m |-> m]
ArcPrim(cx, cy, rsq, m) == [p |-> "arc", x |-> cx, y |-> cy, radiusSq |-> rsq, m |-> m]
TextPrim(t, x, y, ts, m) == [p |-> "text", text |-> t, x |-> x, y |-> y, textStyle |-> ts, m |-> m]

\* the segments of a point array: moveTo the first, lineTo + stroke the others
RECURSIVE Segments(_, _, _)
Segments(pts, j, m) ==
    IF j > Len(pts) THEN <<>>
    ELSE <<Seg(pts[j - 1], pts[j], m)>> \o Segments(pts, j + 1, m)

\* one iteration of the loop of Canvas.prototype.draw
DrawPath(e, m) ==
    CASE e.k = "pts" -> Segments(e.pts, 2, m)
      [] e.k = "rect" -> <<RectPrim(e.top, e.left, e.width, e.height, m)>>
      [] e.k = "circle" -> <<ArcPrim(e.centerX, e.centerY, e.radiusSq, m)>>
      [] e.k = "line" -> <<Seg(e.startPoint, e.endPoint, m)>>
      [] e.k = "text" -> <<TextPrim(e.text, e.point.x, e.point.y, e.textStyle, m)>>

\* the loop of Canvas.prototype.draw over this.paths
RECURSIVE DrawPaths(_, _)
DrawPaths(paths, m) ==
    IF paths = <<>> THEN <<>>
    ELSE DrawPath(Head(paths), m) \o DrawPaths(Tail(paths), m)

SetMax(S) == CHOOSE a \in S : \A b \in S : b <= a
SetMin(S) == CHOOSE a \in S : \A b \in S : a <= b

\* context.measureText(text).width of the host, halved and truncated
HalfTextWidth(t) == IF t = "" THEN 0 ELSE 4

\* the center the loop body of getCenterPoint assigns for one path
PathCenter(e) ==
    CASE e.k = "pts" ->
            LET xs == {e.pts[j].x : j \in 1..Len(e.pts)}
                ys == {e.pts[j].y : j \in 1..Len(e.pts)}
                minX == SetMin(xs)
                minY == SetMin(ys)
                maxX == SetMax(xs \cup {0})
                maxY == SetMax(ys \cup {0})
            IN  Point(((maxX - minX) + 2 * minX) \div 2, ((maxY - minY) + 2 * minY) \div 2)
      [] e.k = "line" ->
            LET minX == SetMin({e.startPoint.x, e.endPoint.x})
                minY == SetMin({e.startPoint.y, e.endPoint.y})
                maxX == SetMax({e.startPoint.x, e.endPoint.x})
                maxY == SetMax({e.startPoint.y, e.endPoint.y})
            IN  Point(((maxX - minX) + 2 * minX) \div 2, ((maxY - minY) + 2 * minY) \div 2)
      [] e.k = "rect" -> Point((e.width \div 2) + e.left, (e.height \div 2) + e.top)
      [] e.k = "circle" -> Point(e.centerX, e.centerY)
      [] e.k = "text" ->
            Point(e.point.x + HalfTextWidth(e.text), e.point.y + (e.textStyle.size \div 2))

\* Canvas.prototype.getCenterPoint: every iteration overwrites the center
RECURSIVE CenterFrom(_, _, _)
CenterFrom(paths, i, c) ==
    IF i > Len(paths) THEN c ELSE CenterFrom(paths, i + 1, PathCenter(paths[i]))

getCenterPoint(paths) == CenterFrom(paths, 1, Point(0, 0))

\* the first switch with a translation that adds to the stored one
ApplyAmountsAdditive(tr, type, amounts) ==
    CASE type = "translate" ->
            IF Len(amounts) < 2 THEN tr
            ELSE IF ~amounts[1].ok \/ ~amounts[2].ok THEN tr
            ELSE [tr EXCEPT !.translate = [x |-> tr.translate.x + amounts[1].v,
                                           y |-> tr.translate.y + amounts[2].v]]
      [] type = "scale" ->
            IF Len(amounts) < 2 THEN tr
            ELSE IF ~amounts[1].ok \/ ~amounts[2].ok THEN tr
            ELSE [tr EXCEPT !.scale = [x |-> amounts[1].v, y |-> amounts[2].v]]
      [] type = "rotate" ->
            IF Len(amounts) < 1 THEN tr
            ELSE IF ~amounts[1].ok THEN tr
            ELSE [tr EXCEPT !.rotate = amounts[1].v]
      [] OTHER -> tr

\* the first switch with NaN coerced to 0 instead of rejected
ApplyAmountsCoerced(tr, type, amounts) ==
    CASE type = "translate" ->
            IF Len(amounts) < 2 THEN tr
            ELSE [tr EXCEPT !.translate =
                     [x |-> IF amounts[1].ok THEN amounts[1].v ELSE 0,
                      y |-> IF amounts[2].ok THEN amounts[2].v ELSE 0]]
      [] type = "scale" ->
            IF Len(amounts) < 2 THEN tr
            ELSE [tr EXCEPT !.scale =
                     [x |-> IF amounts[1].ok THEN amounts[1].v ELSE Rat(0, 1),
                      y |-> IF amounts[2].ok THEN amounts[2].v ELSE Rat(0, 1)]]
      [] type = "rotate" ->
            IF Len(amounts) < 1 THEN tr
            ELSE [tr EXCEPT !.rotate = IF amounts[1].ok THEN amounts[1].v ELSE Angle(0, 1)]
      [] OTHER -> tr

\* the first switch of Canvas.prototype.transform: the new transforms
ApplyAmounts(tr, type, amounts) ==
    CASE type = "translate" ->
            IF Len(amounts) < 2 THEN tr
            ELSE IF ~amounts[1].ok \/ ~amounts[2].ok THEN tr
            ELSE [tr EXCEPT !.translate = [x |-> amounts[1].v, y |-> amounts[2].v]]
      [] type = "scale" ->
            IF Len(amounts) < 2 THEN tr
            ELSE IF ~amounts[1].ok \/ ~amounts[2].ok THEN tr
            ELSE [tr EXCEPT !.scale = [x |-> amounts[1].v, y |-> amounts[2].v]]
      [] type = "rotate" ->
            IF Len(amounts) < 1 THEN tr
            ELSE IF ~amounts[1].ok THEN tr
            ELSE [tr EXCEPT !.rotate = amounts[1].v]
      [] OTHER -> tr

\* the second switch with the order of the ROTATE case in every case
MappingAffineFirst(tr, type, center) ==
    LET pivot == <<[f |-> "translate", x |-> center.x, y |-> center.y],
                   [f |-> "rotate", a |-> tr.rotate],
                   [f |-> "translate", x |-> -center.x, y |-> -center.y]>>
        affine == <<[f |-> "affine", sx |-> tr.scale.x, sy |-> tr.scale.y,
                     tx |-> tr.translate.x, ty |-> tr.translate.y]>>
    IN  CASE type \in {"translate", "scale", "rotate"} -> affine \o pivot
          [] OTHER -> <<>>

\* the second switch with the order of the TRANSLATE / SCALE case in every
\* case
MappingOneOrder(tr, type, center) ==
    LET pivot == <<[f |-> "translate", x |-> center.x, y |-> center.y],
                   [f |-> "rotate", a |-> tr.rotate],
                   [f |-> "translate", x |-> -center.x, y |-> -center.y]>>
        affine == <<[f |-> "affine", sx |-> tr.scale.x, sy |-> tr.scale.y,
                     tx |-> tr.translate.x, ty |-> tr.translate.y]>>
    IN  CASE type \in {"translate", "scale", "rotate"} -> pivot \o affine
          [] OTHER -> <<>>

\* the second switch of Canvas.prototype.transform: the context.transform
\* calls made after setTransform(1, 0, 0, 1, 0, 0), in call order
Mapping(tr, type, center) ==
    LET pivot == <<[f |-> "translate", x |-> center.x, y |-> center.y],
                   [f |-> "rotate", a |-> tr.rotate],
                   [f |-> "translate", x |-> -center.x, y |-> -center.y]>>
        affine == <<[f |-> "affine", sx |-> tr.scale.x, sy |-> tr.scale.y,
                     tx |-> tr.translate.x, ty |-> tr.translate.y]>>
    IN  CASE type \in {"translate", "scale"} -> pivot \o affine
          [] type = "rotate" -> affine \o pivot
          [] OTHER -> <<>>

\* exact arithmetic on the entries of a transformation matrix
RatAdd(p, q) == Rat(p.n * q.d + q.n * p.d, p.d * q.d)
RatMul(p, q) == Rat(p.n * q.n, p.d * q.d)

\* the matrix (a, b, c, d, e, f) of one context.transform call of a mapping;
\* the cosine and sine of a rotation by a multiple of 90 degrees are the
\* components of its direction
StepMatrix(st) ==
    CASE st.f = "translate" ->
            [a |-> Rat(1, 1), b |-> Rat(0, 1), c |-> Rat(0, 1), d |-> Rat(1, 1),
             e |-> Rat(st.x, 1), f |-> Rat(st.y, 1)]
      [] st.f = "rotate" ->
            [a |-> Rat(st.a.dx, 1), b |-> Rat(st.a.dy, 1),
             c |-> Rat(-st.a.dy, 1), d |-> Rat(st.a.dx, 1),
             e |-> Rat(0, 1), f |-> Rat(0, 1)]
      [] st.f = "affine" ->
            [a |-> st.sx, b |-> Rat(0, 1), c |-> Rat(0, 1), d |-> st.sy,
             e |-> Rat(st.tx, 1), f |-> Rat(st.ty, 1)]

\* context.transform(t) on the current matrix m: m multiplied by t
Multiply(m, t) ==
    [a |-> RatAdd(RatMul(m.a, t.a), RatMul(m.c, t.b)),
     b |-> RatAdd(RatMul(m.b, t.a), RatMul(m.d, t.b)),
     c |-> RatAdd(RatMul(m.a, t.c), RatMul(m.c, t.d)),
     d |-> RatAdd(RatMul(m.b, t.c), RatMul(m.d, t.d)),
     e |-> RatAdd(RatAdd(RatMul(m.a, t.e), RatMul(m.c, t.f)), m.e),
     f |-> RatAdd(RatAdd(RatMul(m.b, t.e), RatMul(m.d, t.f)), m.f)]

\* the current transformation matrix after setTransform(1, 0, 0, 1, 0, 0)
\* and the first n context.transform calls of the mapping
RECURSIVE MatrixOf(_, _)
MatrixOf(mapping, n) ==
    IF n = 0
    THEN [a |-> Rat(1, 1), b |-> Rat(0, 1), c |-> Rat(0, 1), d |-> Rat(1, 1),
          e |-> Rat(0, 1), f |-> Rat(0, 1)]
    ELSE Multiply(MatrixOf(mapping, n - 1), StepMatrix(mapping[n]))

\* Canvas.prototype.transform without the clear() before the redraw
CanvasTransformKeepsDrawing(c, type, amounts, hasAmounts) ==
    LET center == getCenterPoint(c.paths)
        t == ToLowerCase(type)
        tr == ApplyAmounts(c.transforms, t, amounts)
        m == Mapping(tr, t, center)
    IN  IF hasAmounts
        THEN [c EXCEPT !.transforms = tr, !.surface = c.surface \o DrawPaths(c.paths, m)]
        ELSE [c EXCEPT !.transforms = tr, !.saved = c.saved + 1]

\* Canvas.prototype.transform(type, amounts); hasAmounts is
\* arguments.length > 1.  Without amounts the save() is not restored and
\* nothing is drawn.
CanvasTransform(c, type, amounts, hasAmounts) ==
    LET center == getCenterPoint(c.paths)
        t == ToLowerCase(type)
        tr == ApplyAmounts(c.transforms, t, amounts)
        m == Mapping(tr, t, center)
    IN  IF hasAmounts
        THEN [c EXCEPT !.transforms = tr, !.surface = DrawPaths(c.paths, m)]
        ELSE [c EXCEPT !.transforms = tr, !.surface = <<>>, !.saved = c.saved + 1]

\* the matrix in effect while Canvas.prototype.transform(type, amounts)
\* redraws a canvas whose TransformState is tr and whose pivot is center,
\* and the TransformState afterwards
TransformResult(tr, center, type, amounts) ==
    LET tr1 == ApplyAmounts(tr, type, amounts)
        m == Mapping(tr1, type, center)
    IN  [transforms |-> tr1, matrix |-> MatrixOf(m, Len(m))]

\* Canvas.prototype.draw(true): transform() and then the loop over the paths
Redraw(c) ==
    LET c1 == CanvasTransform(c, "undefined", <<NaN>>, FALSE)
    IN  [c1 EXCEPT !.surface = c1.surface \o DrawPaths(c1.paths, <<>>)]

----------------------------------------------------------------------------
(* ArtCanvas: construction and the public operations *)

NoGesture ==
    [phase |-> "idle", mode |-> ModeHAND, layer |-> 0, before |-> <<>>,
     anchor |-> Point(0, 0), release |-> Point(0, 0), moves |-> 0, pure |-> TRUE]

\* the keys of the table the constructor builds
CallbackKeys == {"drawstart", "drawmove", "drawend", "changemode", "selectlayer",
                 "showlayer", "hidelayer", "addlayer", "removelayer"}

\* properties every object literal inherits from Object.prototype
InheritedKeys == {"toString", "constructor"}

\* function() {} of the constructor, and two functions of the host
EmptyFunction == "function() {}"
HostFunctions == {"f1", "f2"}

\* Object.prototype.toString.call(v) === '[object Function]'
IsFunction(v) == v \in HostFunctions \cup {EmptyFunction}

\* this.callbacks = {drawstart : function() {}, ...}
DefaultCallbacks == [k \in CallbackKeys |-> EmptyFunction]

\* key in obj, for an object whose own properties are the domain of obj
In(key, obj) == key \in DOMAIN obj \/ key \in InheritedKeys

\* function ArtCanvas(container, canvas, width, height, callbacks)
Constructed ==
    /\ callbacks = DefaultCallbacks
    /\ textStyle = [set |-> FALSE]
    /\ layers = <<Canvas(1, 2)>>
    /\ activeLayer = 0
    /\ isDown = FALSE
    /\ imagedata = [null |-> TRUE]
    /\ textbox = [open |-> FALSE]
    /\ attached = {}
    /\ nextId = 2
    /\ gest = NoGesture
    /\ calls = <<>>
    /\ err = "none"
    /\ started = FALSE

Init ==
    /\ Constructed
    /\ mode = ModeHAND
    /\ figure = "rectangle"
    /\ transform = "translate"
    /\ op = [name |-> "new", args |-> <<>>]
    /\ left = MaxOps

\* the callback named cb is among the callbacks cbs
Invoked(cbs, cb) == \E i \in 1..Len(cbs) : cbs[i].cb = cb

\* what an operation leaves for the observer
Observe(name, args, cbs, e) ==
    /\ op' = [name |-> name, args |-> args]
    /\ calls' = cbs
    /\ err' = e
    /\ started' = IF Invoked(cbs, "drawend") THEN FALSE
                  ELSE IF Invoked(cbs, "drawstart") THEN TRUE
                  ELSE started
    /\ left' = left - 1
    /\ UNCHANGED callbacks

\* keys and values the host puts in the argument of setCallbacks
HostKeys == {"drawstart", "changemode", "bogus", "toString"}
HostValues == HostFunctions \cup {"5"}

\* the arguments of setCallbacks: object literals of at most two entries,
\* and values that are not plain objects
CallbackArgs ==
    {[obj |-> TRUE, entries |-> e] :
        e \in UNION {[K -> HostValues] : K \in {S \in SUBSET HostKeys : Cardinality(S) <= 2}}}
    \cup {[obj |-> FALSE, entries |-> <<>>]}

\* the table after the for-in loop of setCallbacks over the entries
Registered(table, entries) ==
    LET accepted == {k \in DOMAIN entries : In(k, table) /\ IsFunction(entries[k])}
    IN  [k \in DOMAIN table \cup accepted |->
            IF k \in accepted THEN entries[k] ELSE table[k]]

\* ArtCanvas.prototype.setCallbacks
SetCallbacks(arg) ==
    /\ left > 0
    /\ callbacks' = IF arg.obj THEN Registered(callbacks, arg.entries) ELSE callbacks
    /\ op' = [name |-> "setCallbacks", args |-> <<arg>>]
    /\ calls' = <<>>
    /\ err' = "none"
    /\ left' = left - 1
    /\ UNCHANGED <<mode, figure, transform, textStyle, layers, activeLayer, isDown,
                   imagedata, textbox, attached, nextId, gest, started>>

\* this.layers[this.activeLayer] is a Canvas (not undefined)
HasLayer(ls, a) == a >= 0 /\ a < Len(ls)

\* an operation that changes the mode, the layer list or the active layer
\* while a gesture is down interrupts the gesture
Interrupted == IF gest.phase = "down" THEN [gest EXCEPT !.pure = FALSE] ELSE gest

\* Canvas.prototype.drawText(textStyle) on canvas c: the canvas afterwards
DrawText(c, ts, tb) ==
    IF ~ts.set \/ ~tb.open THEN c
    ELSE LET x == tb.left
             y == tb.top + ts.size
         IN  [c EXCEPT !.surface = Append(c.surface, TextPrim(tb.value, x, y, ts, <<>>)),
                       !.paths = Append(c.paths, Text(tb.value, Point(x, y), ts))]

\* ArtCanvas.prototype.setMode
SetMode(arg) ==
    LET m == ToLowerCase(arg)
        isText == m = ModeTEXT
        layers1 == IF isText THEN Append(layers, Canvas(nextId, Len(layers) + 2)) ELSE layers
        active1 == IF isText THEN Len(layers1) - 1 ELSE activeLayer
        cbs1 == IF isText
                THEN <<[cb |-> "addlayer", canvas |-> nextId, index |-> active1]>>
                ELSE <<>>
    IN  /\ left > 0
        /\ mode' = IF m \in {ModeHAND, ModeFIGURE, ModeTRANSFORM, ModeTEXT} THEN m ELSE mode
        /\ activeLayer' = active1
        /\ nextId' = IF isText THEN nextId + 1 ELSE nextId
        /\ attached' = IF isText THEN attached \cup {nextId} ELSE attached
        /\ gest' = Interrupted
        /\ IF HasLayer(layers1, active1)
           THEN /\ layers' = [layers1 EXCEPT ![active1 + 1] = DrawText(@, textStyle, textbox)]
                /\ textbox' = IF textStyle.set /\ textbox.open THEN [open |-> FALSE] ELSE textbox
                /\ Observe("setMode", <<arg>>, cbs1 \o <<[cb |-> "changemode", mode |-> m]>>, "none")
           ELSE /\ layers' = layers1
                /\ textbox' = textbox
                /\ Observe("setMode", <<arg>>, cbs1, "TypeError")
        /\ UNCHANGED <<figure, transform, textStyle, isDown, imagedata>>

\* setFigure without the validation against the enumeration
SetFigureUnchecked(arg) ==
    /\ left > 0
    /\ figure' = ToLowerCase(arg)
    /\ Observe("setFigure", <<arg>>, <<>>, "none")
    /\ UNCHANGED <<mode, transform, textStyle, layers, activeLayer, isDown,
                   imagedata, textbox, attached, nextId, gest>>

\* ArtCanvas.prototype.setFigure
SetFigure(arg) ==
    LET f == ToLowerCase(arg) IN
    /\ left > 0
    /\ figure' = IF f \in {"rectangle", "circle", "line"} THEN f ELSE figure
    /\ Observe("setFigure", <<arg>>, <<>>, "none")
    /\ UNCHANGED <<mode, transform, textStyle, layers, activeLayer, isDown,
                   imagedata, textbox, attached, nextId, gest>>

\* ArtCanvas.prototype.setTransform
SetTransform(arg) ==
    LET t == ToLowerCase(arg) IN
    /\ left > 0
    /\ transform' = IF t \in {"translate", "scale", "rotate"} THEN t ELSE transform
    /\ Observe("setTransform", <<arg>>, <<>>, "none")
    /\ UNCHANGED <<mode, figure, textStyle, layers, activeLayer, isDown,
                   imagedata, textbox, attached, nextId, gest>>

\* the TextStyle instances the host passes to setTextStyle
TextStyles == {[set |-> TRUE, family |-> "Arial", style |-> "normal", size |-> 16,
                color |-> "rgba(0, 0, 0, 1.0)"]}

\* ArtCanvas.prototype.setTextStyle; isStyle is textStyle instanceof TextStyle
SetTextStyle(ts, isStyle) ==
    /\ left > 0
    /\ textStyle' = IF isStyle THEN ts ELSE textStyle
    /\ Observe("setTextStyle", <<isStyle>>, <<>>, "none")
    /\ UNCHANGED <<mode, figure, transform, layers, activeLayer, isDown,
                   imagedata, textbox, attached, nextId, gest>>

\* ArtCanvas.prototype.validateLayerNumer: the index is valid
validateLayerNumer(index) == (index >= 0) /\ (index < Len(layers))

\* selectLayer without validateLayerNumer
SelectLayerUnchecked(n) ==
    /\ left > 0
    /\ activeLayer' = n
    /\ gest' = Interrupted
    /\ Observe("selectLayer", <<n>>, <<[cb |-> "selectlayer", index |-> n]>>, "none")
    /\ UNCHANGED <<mode, figure, transform, textStyle, layers, isDown,
                   imagedata, textbox, attached, nextId>>

\* ArtCanvas.prototype.selectLayer
SelectLayer(n) ==
    /\ left > 0
    /\ IF validateLayerNumer(n)
       THEN /\ activeLayer' = n
            /\ gest' = Interrupted
            /\ Observe("selectLayer", <<n>>, <<[cb |-> "selectlayer", index |-> n]>>, "none")
       ELSE /\ UNCHANGED <<activeLayer, gest>>
            /\ Observe("selectLayer", <<n>>, <<>>, "none")
    /\ UNCHANGED <<mode, figure, transform, textStyle, layers, isDown,
                   imagedata, textbox, attached, nextId>>

\* ArtCanvas.prototype.showLayer
ShowLayer(n) ==
    /\ left > 0
    /\ IF validateLayerNumer(n)
       THEN /\ layers' = [layers EXCEPT ![n + 1].visibility = "visible"]
            /\ Observe("showLayer", <<n>>,
                       <<[cb |-> "showlayer", canvas |-> layers[n + 1].id, index |-> n]>>, "none")
       ELSE /\ UNCHANGED layers
            /\ Observe("showLayer", <<n>>, <<>>, "none")
    /\ UNCHANGED <<mode, figure, transform, textStyle, activeLayer, isDown,
                   imagedata, textbox, attached, nextId, gest>>

\* ArtCanvas.prototype.hideLayer
HideLayer(n) ==
    /\ left > 0
    /\ IF validateLayerNumer(n)
       THEN /\ layers' = [layers EXCEPT ![n + 1].visibility = "hidden"]
            /\ Observe("hideLayer", <<n>>,
                       <<[cb |-> "hidelayer", canvas |-> layers[n + 1].id, index |-> n]>>, "none")
       ELSE /\ UNCHANGED layers
            /\ Observe("hideLayer", <<n>>, <<>>, "none")
    /\ UNCHANGED <<mode, figure, transform, textStyle, activeLayer, isDown,
                   imagedata, textbox, attached, nextId, gest>>

\* addLayer that puts the new layer at the front of the list (unshift)
AddLayerAtFront ==
    /\ left > 0
    /\ layers' = <<Canvas(nextId, Len(layers) + 2)>> \o layers
    /\ activeLayer' = Len(layers') - 1
    /\ nextId' = nextId + 1
    /\ attached' = attached \cup {nextId}
    /\ gest' = Interrupted
    /\ Observe("addLayer", <<>>,
               <<[cb |-> "addlayer", canvas |-> nextId, index |-> Len(layers)]>>, "none")
    /\ UNCHANGED <<mode, figure, transform, textStyle, isDown, imagedata, textbox>>

\* addLayer that does not select the layer it adds
AddLayerKeepsActive ==
    /\ left > 0
    /\ layers' = Append(layers, Canvas(nextId, Len(layers) + 2))
    /\ nextId' = nextId + 1
    /\ attached' = attached \cup {nextId}
    /\ gest' = Interrupted
    /\ Observe("addLayer", <<>>,
               <<[cb |-> "addlayer", canvas |-> nextId, index |-> Len(layers)]>>, "none")
    /\ UNCHANGED <<mode, figure, transform, textStyle, activeLayer, isDown, imagedata, textbox>>

\* ArtCanvas.prototype.addLayer
AddLayer ==
    /\ left > 0
    /\ layers' = Append(layers, Canvas(nextId, Len(layers) + 2))
    /\ activeLayer' = Len(layers') - 1
    /\ nextId' = nextId + 1
    /\ attached' = attached \cup {nextId}
    /\ gest' = Interrupted
    /\ Observe("addLayer", <<>>,
               <<[cb |-> "addlayer", canvas |-> nextId, index |-> Len(layers)]>>, "none")
    /\ UNCHANGED <<mode, figure, transform, textStyle, isDown, imagedata, textbox>>

\* Array.prototype.splice(index, 1), index 0-based
Splice(s, index) ==
    IF index >= Len(s) THEN s
    ELSE [j \in 1..(Len(s) - 1) |-> IF j <= index THEN s[j] ELSE s[j + 1]]

\* ArtCanvas.prototype.removeLayer
RemoveLayer(n) ==
    /\ left > 0
    /\ IF validateLayerNumer(n)
       THEN /\ layers' = Splice(layers, n)
            /\ activeLayer' = activeLayer - 1
            /\ gest' = Interrupted
            /\ Observe("removeLayer", <<n>>,
                       <<[cb |-> "removelayer", canvas |-> layers[n + 1].id, index |-> n]>>, "none")
       ELSE /\ UNCHANGED <<layers, activeLayer, gest>>
            /\ Observe("removeLayer", <<n>>, <<>>, "none")
    /\ UNCHANGED <<mode, figure, transform, textStyle, isDown,
                   imagedata, textbox, attached, nextId>>

----------------------------------------------------------------------------
(* Style setters and public transforms: delegated to the active layer *)

DEFAULT_WIDTH == 300
DEFAULT_HEIGHT == 300

FillStyles == {"rgba(255, 0, 0, 1.0)"}
StrokeStyles == {"rgba(0, 0, 255, 1.0)"}
LineWidths == {0, 2}
TranslateArgs == {<<1, 2>>}
ScaleArgs == {<<Rat(2, 1), Rat(1, 1)>>}
RotateArgs == {90}

\* an operation that only replaces the active Canvas by f(canvas), or
\* throws when this.layers[this.activeLayer] is undefined
OnActiveLayer(name, args, c1) ==
    /\ left > 0
    /\ IF HasLayer(layers, activeLayer)
       THEN /\ layers' = [layers EXCEPT ![activeLayer + 1] = c1]
            /\ Observe(name, args, <<>>, "none")
       ELSE /\ UNCHANGED layers
            /\ Observe(name, args, <<>>, "TypeError")
    /\ UNCHANGED <<mode, figure, transform, textStyle, activeLayer, isDown,
                   imagedata, textbox, attached, nextId, gest>>

ActiveCanvas == layers[activeLayer + 1]

\* ArtCanvas.prototype.setFillStyle -> Canvas.prototype.setFillStyle
SetFillStyle(v) ==
    OnActiveLayer("setFillStyle", <<v>>, Redraw([ActiveCanvas EXCEPT !.fillStyle = v]))

\* ArtCanvas.prototype.setStrokeStyle -> Canvas.prototype.setStrokeStyle
SetStrokeStyle(v) ==
    OnActiveLayer("setStrokeStyle", <<v>>, Redraw([ActiveCanvas EXCEPT !.strokeStyle = v]))

\* ArtCanvas.prototype.setLineWidth -> Canvas.prototype.setLineWidth
SetLineWidth(w) ==
    OnActiveLayer("setLineWidth", <<w>>,
                  IF w > 0 THEN Redraw([ActiveCanvas EXCEPT !.lineWidth = w]) ELSE ActiveCanvas)

\* ArtCanvas.prototype.translate
Translate(x, y) ==
    OnActiveLayer("translate", <<x, y>>,
                  CanvasTransform(ActiveCanvas, "translate", <<Num(x), Num(y)>>, TRUE))

\* ArtCanvas.prototype.scale
Scale(x, y) ==
    OnActiveLayer("scale", <<x, y>>,
                  CanvasTransform(ActiveCanvas, "scale", <<Num(x), Num(y)>>, TRUE))

\* rotate that transforms the first layer, whichever layer is active
RotateFirstLayer(d) ==
    /\ left > 0
    /\ IF HasLayer(layers, activeLayer)
       THEN /\ layers' = [layers EXCEPT ![1] =
                            CanvasTransform(@, "rotate", <<Num(DegreeAngle(d))>>, TRUE)]
            /\ Observe("rotate", <<d>>, <<>>, "none")
       ELSE /\ UNCHANGED layers
            /\ Observe("rotate", <<d>>, <<>>, "TypeError")
    /\ UNCHANGED <<mode, figure, transform, textStyle, activeLayer, isDown,
                   imagedata, textbox, attached, nextId, gest>>

\* ArtCanvas.prototype.rotate
Rotate(d) ==
    OnActiveLayer("rotate", <<d>>,
                  CanvasTransform(ActiveCanvas, "rotate", <<Num(DegreeAngle(d))>>, TRUE))

\* the values a host passes as amounts: a number, a string, or undefined
RawNum(v) == [t |-> "num", v |-> v]
RawStr(str) == [t |-> "str", s |-> str]
RawUndefined == [t |-> "undef"]

\* parseFloat: a number is itself, a string is its longest numeric prefix
\* ("2px" is 2), a string without one and undefined are NaN
ParseFloat(r) ==
    CASE r.t = "num" -> Num(r.v)
      [] r.t = "str" /\ r.s = "2px" -> Num(2)
      [] OTHER -> NaN

\* the amounts as the first switch of Canvas.prototype.transform reads them:
\* parseFloat of each, a rotation in degrees turned into its angle
ParsedAmounts(type, raws) ==
    [i \in 1..Len(raws) |->
        LET a == ParseFloat(raws[i])
        IN  IF ToLowerCase(type) = "rotate" /\ a.ok THEN Num(DegreeAngle(a.v)) ELSE a]

\* the calls layers[activeLayer].transform(type, amounts) of the host
TransformCalls ==
    {<<"skew", <<RawNum(1), RawNum(2)>>>>,
     <<"translate", <<RawNum(3)>>>>,
     <<"scale", <<RawNum(Rat(2, 1))>>>>,
     <<"rotate", <<>>>>,
     <<"translate", <<RawStr("abc"), RawNum(1)>>>>,
     <<"scale", <<RawNum(Rat(2, 1)), RawUndefined>>>>,
     <<"rotate", <<RawStr("abc")>>>>,
     <<"translate", <<RawStr("2px"), RawNum(1)>>>>,
     <<"SCALE", <<RawNum(Rat(2, 1)), RawNum(Rat(2, 1))>>>>}

\* Canvas.prototype.transform called by the host on the active layer
TransformCall(type, raws) ==
    OnActiveLayer("transform", <<type, raws>>,
                  CanvasTransform(ActiveCanvas, type, ParsedAmounts(type, raws), TRUE))

\* clear that also resets the TransformState
ClearResetsTransforms ==
    OnActiveLayer("clear", <<>>,
                  [ActiveCanvas EXCEPT !.surface = <<>>, !.transforms = IdentityTransforms])

\* Canvas.prototype.clear called by the host on the active layer
Clear ==
    OnActiveLayer("clear", <<>>, [ActiveCanvas EXCEPT !.surface = <<>>])

\* Canvas.prototype.clearPaths called by the host on the active layer
ClearPaths ==
    OnActiveLayer("clearPaths", <<>>, [ActiveCanvas EXCEPT !.paths = <<>>])

\* the amounts of the public transform calls where two values are needed
TranslateAmounts == {<<1, 2>>, <<3, 0>>}
ScaleAmounts == {<<Rat(2, 1), Rat(2, 1)>>, <<Rat(1, 2), Rat(1, 1)>>}
RotateDegrees == {90, 180}

----------------------------------------------------------------------------
(* Pointer events *)

\* the page positions (pageX, pageY) of the pointer events
Positions == {<<1, 1>>, <<1, 2>>, <<2, 1>>, <<4, 3>>}

\* Canvas.prototype.getOffsetX / getOffsetY for a container at the page
\* origin: the page coordinate clamped to the canvas
getOffset(page, size) == IF page < 0 THEN 0 ELSE IF page > size THEN size ELSE page

Last(s) == s[Len(s)]
Front(s) == SubSeq(s, 1, Len(s) - 1)

\* The handlers' "points = paths.pop(); point = points.pop()": the outcome
\* of a step on canvas c is [c |-> canvas afterwards, thrown |-> BOOLEAN].
\* With no path, points is undefined and points.pop() throws; with a path
\* that is no array the path is popped and points.pop() throws.
PopThrows(c) == c.paths = <<>> \/ Last(c.paths).k # "pts"
AfterPopThrow(c) == IF c.paths = <<>> THEN c ELSE [c EXCEPT !.paths = Front(c.paths)]

\* _figure that pushes the finalized shape without popping the anchor array
_figureKeepsAnchor(c, x, y, isUp) ==
    IF PopThrows(c) THEN [c |-> AfterPopThrow(c), thrown |-> TRUE]
    ELSE IF imagedata.null THEN [c |-> c, thrown |-> TRUE]
    ELSE LET point == Last(Last(c.paths).pts)
             offset == getOffsetPoint(point, Point(x, y))
             shape == CASE figure = "rectangle" -> Rectangle(point.x, point.y, offset.x, offset.y)
                        [] figure = "circle" -> Circle(point.x, point.y, getDistanceSq(point, Point(x, y)))
                        [] figure = "line" -> Line(point, Point(x, y))
         IN  [c |-> [c EXCEPT !.surface = imagedata.data,
                              !.paths = IF isUp THEN Append(c.paths, shape) ELSE c.paths],
              thrown |-> FALSE]

\* _figure on mousemove / mouseup
_figure(c, x, y, isUp) ==
    IF PopThrows(c) THEN [c |-> AfterPopThrow(c), thrown |-> TRUE]
    ELSE IF imagedata.null THEN [c |-> c, thrown |-> TRUE]
    ELSE LET point == Last(Last(c.paths).pts)
             offset == getOffsetPoint(point, Point(x, y))
             prim == CASE figure = "rectangle" -> RectPrim(point.x, point.y, offset.x, offset.y, <<>>)
                       [] figure = "circle" -> ArcPrim(point.x, point.y, getDistanceSq(point, Point(x, y)), <<>>)
                       [] figure = "line" -> Seg(point, Point(x, y), <<>>)
             shape == CASE figure = "rectangle" -> Rectangle(point.x, point.y, offset.x, offset.y)
                        [] figure = "circle" -> Circle(point.x, point.y, getDistanceSq(point, Point(x, y)))
                        [] figure = "line" -> Line(point, Point(x, y))
         IN  [c |-> [c EXCEPT !.surface = Append(imagedata.data, prim),
                              !.paths = IF isUp THEN Append(Front(c.paths), shape) ELSE c.paths],
              thrown |-> FALSE]

\* _transform that pushes the pointer position back instead of the anchor
_transformMovesAnchor(c, x, y) ==
    IF PopThrows(c) THEN [c |-> AfterPopThrow(c), thrown |-> TRUE]
    ELSE LET points == Last(c.paths)
             point == Last(points.pts)
             offset == getOffsetPoint(point, Point(x, y))
             amounts == CASE transform = "translate" -> <<Num(offset.x), Num(offset.y)>>
                          [] transform = "scale" ->
                                <<Num(Rat(DEFAULT_WIDTH + offset.x, DEFAULT_WIDTH)),
                                  Num(Rat(DEFAULT_HEIGHT + offset.y, DEFAULT_HEIGHT))>>
                          [] transform = "rotate" -> <<Num(Angle(offset.y, offset.x))>>
             c1 == CanvasTransform([c EXCEPT !.paths = Front(c.paths)], transform, amounts, TRUE)
             moved == [points EXCEPT !.pts = Append(Front(points.pts), Point(x, y))]
         IN  [c |-> [c1 EXCEPT !.paths = Append(c1.paths, moved)], thrown |-> FALSE]

\* _transform that does not push the anchor array back
_transformDropsAnchor(c, x, y) ==
    IF PopThrows(c) THEN [c |-> AfterPopThrow(c), thrown |-> TRUE]
    ELSE LET points == Last(c.paths)
             point == Last(points.pts)
             offset == getOffsetPoint(point, Point(x, y))
             amounts == CASE transform = "translate" -> <<Num(offset.x), Num(offset.y)>>
                          [] transform = "scale" ->
                                <<Num(Rat(DEFAULT_WIDTH + offset.x, DEFAULT_WIDTH)),
                                  Num(Rat(DEFAULT_HEIGHT + offset.y, DEFAULT_HEIGHT))>>
                          [] transform = "rotate" -> <<Num(Angle(offset.y, offset.x))>>
         IN  [c |-> CanvasTransform([c EXCEPT !.paths = Front(c.paths)], transform, amounts, TRUE),
              thrown |-> FALSE]

\* _transform on mousemove: the anchor array is off the path list while
\* Canvas.transform runs and is pushed back afterwards
_transform(c, x, y) ==
    IF PopThrows(c) THEN [c |-> AfterPopThrow(c), thrown |-> TRUE]
    ELSE LET points == Last(c.paths)
             point == Last(points.pts)
             offset == getOffsetPoint(point, Point(x, y))
             amounts == CASE transform = "translate" -> <<Num(offset.x), Num(offset.y)>>
                          [] transform = "scale" ->
                                <<Num(Rat(DEFAULT_WIDTH + offset.x, DEFAULT_WIDTH)),
                                  Num(Rat(DEFAULT_HEIGHT + offset.y, DEFAULT_HEIGHT))>>
                          [] transform = "rotate" -> <<Num(Angle(offset.y, offset.x))>>
             c1 == CanvasTransform([c EXCEPT !.paths = Front(c.paths)], transform, amounts, TRUE)
         IN  [c |-> [c1 EXCEPT !.paths = Append(c1.paths, points)], thrown |-> FALSE]

\* the HAND branch of the MOVE handler with the new point put in the place
\* of the last one
HandMoveReplacesPoint(c, x, y) ==
    IF PopThrows(c) THEN [c |-> AfterPopThrow(c), thrown |-> TRUE]
    ELSE LET points == Last(c.paths)
             point == Last(points.pts)
         IN  [c |-> [c EXCEPT !.surface = Append(c.surface, Seg(point, Point(x, y), <<>>)),
                              !.paths = Append(Front(c.paths),
                                               [points EXCEPT !.pts = Append(Front(points.pts), Point(x, y))])],
              thrown |-> FALSE]

\* the HAND branch of the MOVE handler
HandMove(c, x, y) ==
    IF PopThrows(c) THEN [c |-> AfterPopThrow(c), thrown |-> TRUE]
    ELSE LET points == Last(c.paths)
             point == Last(points.pts)
         IN  [c |-> [c EXCEPT !.surface = Append(c.surface, Seg(point, Point(x, y), <<>>)),
                              !.paths = Append(Front(c.paths),
                                               [points EXCEPT !.pts = Append(points.pts, Point(x, y))])],
              thrown |-> FALSE]

\* the START handler with a createTextbox that does not look for an
\* existing text input
PointerDownAlwaysOpens(px, py) ==
    LET c == ActiveCanvas
        x == getOffset(px, DEFAULT_WIDTH)
        y == getOffset(py, DEFAULT_HEIGHT)
    IN  /\ left > 0
        /\ IF ~HasLayer(layers, activeLayer)
           THEN /\ Observe("pointerdown", <<px, py>>, <<>>, "TypeError")
                /\ UNCHANGED <<layers, isDown, imagedata, textbox, gest>>
           ELSE IF mode = ModeTEXT
           THEN /\ textbox' = [open |-> TRUE, left |-> x, top |-> y, value |-> ""]
                /\ Observe("pointerdown", <<px, py>>, <<>>, "none")
                /\ UNCHANGED <<layers, isDown, imagedata, gest>>
           ELSE /\ imagedata' = IF mode = ModeFIGURE
                                THEN [null |-> FALSE, data |-> c.surface]
                                ELSE imagedata
                /\ layers' = [layers EXCEPT ![activeLayer + 1].paths =
                                 Append(@, PointList(<<Point(x, y)>>, mode))]
                /\ isDown' = TRUE
                /\ gest' = [phase |-> "down", mode |-> mode, layer |-> c.id,
                            before |-> c.paths, anchor |-> Point(x, y),
                            release |-> Point(0, 0), moves |-> 0, pure |-> TRUE]
                /\ Observe("pointerdown", <<px, py>>,
                           <<[cb |-> "drawstart", canvas |-> c.id, x |-> x, y |-> y]>>, "none")
                /\ UNCHANGED textbox
        /\ UNCHANGED <<mode, figure, transform, textStyle, activeLayer, attached, nextId>>

\* the START handler (mousedown / touchstart on the container)
PointerDown(px, py) ==
    LET c == ActiveCanvas
        x == getOffset(px, DEFAULT_WIDTH)
        y == getOffset(py, DEFAULT_HEIGHT)
    IN  /\ left > 0
        /\ IF ~HasLayer(layers, activeLayer)
           THEN /\ Observe("pointerdown", <<px, py>>, <<>>, "TypeError")
                /\ UNCHANGED <<layers, isDown, imagedata, textbox, gest>>
           ELSE IF mode = ModeTEXT
           THEN /\ textbox' = IF textbox.open THEN textbox
                              ELSE [open |-> TRUE, left |-> x, top |-> y, value |-> ""]
                /\ Observe("pointerdown", <<px, py>>, <<>>, "none")
                /\ UNCHANGED <<layers, isDown, imagedata, gest>>
           ELSE /\ imagedata' = IF mode = ModeFIGURE
                                THEN [null |-> FALSE, data |-> c.surface]
                                ELSE imagedata
                /\ layers' = [layers EXCEPT ![activeLayer + 1].paths =
                                 Append(@, PointList(<<Point(x, y)>>, mode))]
                /\ isDown' = TRUE
                /\ gest' = [phase |-> "down", mode |-> mode, layer |-> c.id,
                            before |-> c.paths, anchor |-> Point(x, y),
                            release |-> Point(0, 0), moves |-> 0, pure |-> TRUE]
                /\ Observe("pointerdown", <<px, py>>,
                           <<[cb |-> "drawstart", canvas |-> c.id, x |-> x, y |-> y]>>, "none")
                /\ UNCHANGED textbox
        /\ UNCHANGED <<mode, figure, transform, textStyle, activeLayer, attached, nextId>>

\* a pointer event that arrives while no gesture is down
Ignored(name, px, py) ==
    /\ Observe(name, <<px, py>>, <<>>, "none")
    /\ gest' = IF gest.phase = "ended" THEN [gest EXCEPT !.phase = "idle"] ELSE gest
    /\ UNCHANGED <<layers, isDown, imagedata>>

\* the MOVE handler without the isDown gate
PointerMoveUngated(px, py) ==
    LET c == ActiveCanvas
        x == getOffset(px, DEFAULT_WIDTH)
        y == getOffset(py, DEFAULT_HEIGHT)
        r == CASE mode = ModeHAND -> HandMove(c, x, y)
               [] mode = ModeFIGURE -> _figure(c, x, y, FALSE)
               [] mode = ModeTRANSFORM -> _transform(c, x, y)
               [] OTHER -> [c |-> c, thrown |-> FALSE]
    IN  /\ left > 0
        /\ IF ~HasLayer(layers, activeLayer)
           THEN /\ Observe("pointermove", <<px, py>>, <<>>, "TypeError")
                /\ UNCHANGED <<layers, isDown, imagedata, gest>>
           ELSE /\ layers' = [layers EXCEPT ![activeLayer + 1] = r.c]
                /\ gest' = IF r.thrown THEN gest ELSE [gest EXCEPT !.moves = @ + 1]
                /\ Observe("pointermove", <<px, py>>,
                           IF r.thrown THEN <<>>
                           ELSE <<[cb |-> "drawmove", canvas |-> c.id, x |-> x, y |-> y]>>,
                           IF r.thrown THEN "TypeError" ELSE "none")
                /\ UNCHANGED <<isDown, imagedata>>
        /\ UNCHANGED <<mode, figure, transform, textStyle, activeLayer, textbox,
                       attached, nextId>>

\* the MOVE handler (mousemove / touchmove on the container)
PointerMove(px, py) ==
    LET c == ActiveCanvas
        x == getOffset(px, DEFAULT_WIDTH)
        y == getOffset(py, DEFAULT_HEIGHT)
        r == CASE mode = ModeHAND -> HandMove(c, x, y)
               [] mode = ModeFIGURE -> _figure(c, x, y, FALSE)
               [] mode = ModeTRANSFORM -> _transform(c, x, y)
               [] OTHER -> [c |-> c, thrown |-> FALSE]
    IN  /\ left > 0
        /\ IF ~isDown THEN Ignored("pointermove", px, py)
           ELSE IF ~HasLayer(layers, activeLayer)
           THEN /\ Observe("pointermove", <<px, py>>, <<>>, "TypeError")
                /\ UNCHANGED <<layers, isDown, imagedata, gest>>
           ELSE /\ layers' = [layers EXCEPT ![activeLayer + 1] = r.c]
                /\ gest' = IF r.thrown THEN gest ELSE [gest EXCEPT !.moves = @ + 1]
                /\ Observe("pointermove", <<px, py>>,
                           IF r.thrown THEN <<>>
                           ELSE <<[cb |-> "drawmove", canvas |-> c.id, x |-> x, y |-> y]>>,
                           IF r.thrown THEN "TypeError" ELSE "none")
                /\ UNCHANGED <<isDown, imagedata>>
        /\ UNCHANGED <<mode, figure, transform, textStyle, activeLayer, textbox,
                       attached, nextId>>

\* the END handler without the isDown gate
PointerUpUngated(px, py) ==
    LET c == ActiveCanvas
        x == getOffset(px, DEFAULT_WIDTH)
        y == getOffset(py, DEFAULT_HEIGHT)
        r == CASE mode = ModeFIGURE -> _figure(c, x, y, TRUE)
               [] mode = ModeTRANSFORM ->
                    [c |-> IF c.paths = <<>> THEN c ELSE [c EXCEPT !.paths = Front(c.paths)],
                     thrown |-> FALSE]
               [] OTHER -> [c |-> c, thrown |-> FALSE]
    IN  /\ left > 0
        /\ IF ~HasLayer(layers, activeLayer)
           THEN /\ Observe("pointerup", <<px, py>>, <<>>, "TypeError")
                /\ UNCHANGED <<layers, isDown, imagedata, gest>>
           ELSE /\ layers' = [layers EXCEPT ![activeLayer + 1] = r.c]
                /\ IF r.thrown
                   THEN /\ Observe("pointerup", <<px, py>>, <<>>, "TypeError")
                        /\ UNCHANGED <<isDown, imagedata, gest>>
                   ELSE /\ imagedata' = IF mode = ModeFIGURE THEN [null |-> TRUE] ELSE imagedata
                        /\ isDown' = FALSE
                        /\ gest' = [gest EXCEPT !.phase = "ended", !.release = Point(x, y)]
                        /\ Observe("pointerup", <<px, py>>,
                                   <<[cb |-> "drawend", canvas |-> c.id, x |-> x, y |-> y]>>, "none")
        /\ UNCHANGED <<mode, figure, transform, textStyle, activeLayer, textbox,
                       attached, nextId>>

\* the END handler (mouseup / touchend on the window)
PointerUp(px, py) ==
    LET c == ActiveCanvas
        x == getOffset(px, DEFAULT_WIDTH)
        y == getOffset(py, DEFAULT_HEIGHT)
        r == CASE mode = ModeFIGURE -> _figure(c, x, y, TRUE)
               [] mode = ModeTRANSFORM ->
                    [c |-> IF c.paths = <<>> THEN c ELSE [c EXCEPT !.paths = Front(c.paths)],
                     thrown |-> FALSE]
               [] OTHER -> [c |-> c, thrown |-> FALSE]
    IN  /\ left > 0
        /\ IF ~isDown THEN Ignored("pointerup", px, py)
           ELSE IF ~HasLayer(layers, activeLayer)
           THEN /\ Observe("pointerup", <<px, py>>, <<>>, "TypeError")
                /\ UNCHANGED <<layers, isDown, imagedata, gest>>
           ELSE /\ layers' = [layers EXCEPT ![activeLayer + 1] = r.c]
                /\ IF r.thrown
                   THEN /\ Observe("pointerup", <<px, py>>, <<>>, "TypeError")
                        /\ UNCHANGED <<isDown, imagedata, gest>>
                   ELSE /\ imagedata' = IF mode = ModeFIGURE THEN [null |-> TRUE] ELSE imagedata
                        /\ isDown' = FALSE
                        /\ gest' = [gest EXCEPT !.phase = "ended", !.release = Point(x, y)]
                        /\ Observe("pointerup", <<px, py>>,
                                   <<[cb |-> "drawend", canvas |-> c.id, x |-> x, y |-> y]>>, "none")
        /\ UNCHANGED <<mode, figure, transform, textStyle, activeLayer, textbox,
                       attached, nextId>>

\* the user types v into the open text capture
TextValues == {"hi"}

TypeText(v) ==
    /\ left > 0
    /\ textbox.open
    /\ textbox' = [textbox EXCEPT !.value = v]
    /\ Observe("type", <<v>>, <<>>, "none")
    /\ UNCHANGED <<mode, figure, transform, textStyle, layers, activeLayer, isDown,
                   imagedata, attached, nextId, gest>>

----------------------------------------------------------------------------
(* Specifications *)

Next ==
    \/ \E a \in ModeArgs : SetMode(a)
    \/ \E a \in FigureArgs : SetFigure(a)
    \/ \E a \in TransformArgs : SetTransform(a)
    \/ \E ts \in TextStyles, b \in BOOLEAN : SetTextStyle(ts, b)
    \/ \E n \in LayerArgs : SelectLayer(n)
    \/ \E n \in LayerArgs : ShowLayer(n)
    \/ \E n \in LayerArgs : HideLayer(n)
    \/ AddLayer
    \/ \E n \in LayerArgs : RemoveLayer(n)
    \/ \E v \in FillStyles : SetFillStyle(v)
    \/ \E v \in StrokeStyles : SetStrokeStyle(v)
    \/ \E w \in LineWidths : SetLineWidth(w)
    \/ \E a \in TranslateArgs : Translate(a[1], a[2])
    \/ \E a \in ScaleArgs : Scale(a[1], a[2])
    \/ \E d \in RotateArgs : Rotate(d)
    \/ \E q \in Positions : PointerDown(q[1], q[2])
    \/ \E q \in Positions : PointerMove(q[1], q[2])
    \/ \E q \in Positions : PointerUp(q[1], q[2])
    \/ \E v \in TextValues : TypeText(v)

Spec == Init /\ [][Next]_vars


\* the layer operations and setMode, from the constructed scene
InitLayers ==
    /\ Constructed
    /\ mode = ModeHAND
    /\ figure = "rectangle"
    /\ transform = "translate"
    /\ op = [name |-> "new", args |-> <<>>]
    /\ left = MaxLayerOps

NextLayers ==
    \/ \E a \in ModeArgs : SetMode(a)
    \/ \E n \in LayerArgs : SelectLayer(n)
    \/ \E n \in LayerArgs : ShowLayer(n)
    \/ \E n \in LayerArgs : HideLayer(n)
    \/ AddLayer
    \/ \E n \in LayerArgs : RemoveLayer(n)

SpecLayers == InitLayers /\ [][NextLayers]_vars

\* addLayer and removeLayer alone, from the constructed scene
InitAddRemove ==
    /\ Constructed
    /\ mode = ModeHAND
    /\ figure = "rectangle"
    /\ transform = "translate"
    /\ op = [name |-> "new", args |-> <<>>]
    /\ left = MaxAddRemoveOps

NextAddRemove ==
    \/ AddLayer
    \/ \E n \in LayerArgs : RemoveLayer(n)

SpecAddRemove == InitAddRemove /\ [][NextAddRemove]_vars

\* the mode, figure and transform setters, from the constructed scene
InitSelectors ==
    /\ Constructed
    /\ mode = ModeHAND
    /\ figure = "rectangle"
    /\ transform = "translate"
    /\ op = [name |-> "new", args |-> <<>>]
    /\ left = MaxSelectorOps

NextSelectors ==
    \/ \E a \in ModeArgs : SetMode(a)
    \/ \E a \in FigureArgs : SetFigure(a)
    \/ \E a \in TransformArgs : SetTransform(a)

SpecSelectors == InitSelectors /\ [][NextSelectors]_vars

\* pointer events alone, from the scene as it is after construction,
\* setMode(m), setFigure(f) and setTransform(t)
InitGesture ==
    /\ Constructed
    /\ mode \in {ModeHAND, ModeFIGURE, ModeTRANSFORM}
    /\ figure \in FigureKinds
    /\ transform \in TransformKinds
    /\ op = [name |-> "setTransform", args |-> <<transform>>]
    /\ left = MaxGestureOps

NextGesture ==
    \/ \E q \in Positions : PointerDown(q[1], q[2])
    \/ \E q \in Positions : PointerMove(q[1], q[2])
    \/ \E q \in Positions : PointerUp(q[1], q[2])

SpecGesture == InitGesture /\ [][NextGesture]_vars

\* the page positions of the pointer events where two positions suffice
PointerSpots == {<<1, 2>>, <<4, 3>>}

\* pointer events interleaved with setMode and removeLayer, from the
\* constructed scene
InitPointer ==
    /\ Constructed
    /\ mode = ModeHAND
    /\ figure = "rectangle"
    /\ transform = "translate"
    /\ op = [name |-> "new", args |-> <<>>]
    /\ left = MaxPointerOps

NextPointer ==
    \/ \E a \in ModeArgs : SetMode(a)
    \/ \E n \in LayerArgs : RemoveLayer(n)
    \/ \E q \in PointerSpots : PointerDown(q[1], q[2])
    \/ \E q \in PointerSpots : PointerMove(q[1], q[2])
    \/ \E q \in PointerSpots : PointerUp(q[1], q[2])

SpecPointer == InitPointer /\ [][NextPointer]_vars

\* text entry: setMode, setTextStyle, pointer events and typing, from the
\* constructed scene
InitText ==
    /\ Constructed
    /\ mode = ModeHAND
    /\ figure = "rectangle"
    /\ transform = "translate"
    /\ op = [name |-> "new", args |-> <<>>]
    /\ left = MaxTextOps

NextText ==
    \/ \E a \in ModeArgs : SetMode(a)
    \/ \E ts \in TextStyles, b \in BOOLEAN : SetTextStyle(ts, b)
    \/ \E q \in PointerSpots : PointerDown(q[1], q[2])
    \/ \E q \in PointerSpots : PointerMove(q[1], q[2])
    \/ \E q \in PointerSpots : PointerUp(q[1], q[2])
    \/ \E v \in TextValues : TypeText(v)

SpecText == InitText /\ [][NextText]_vars

\* gestures in changing modes, from the scene as it is after construction
\* and setTransform(t)
InitDraw ==
    /\ Constructed
    /\ mode = ModeHAND
    /\ figure = "rectangle"
    /\ transform \in TransformKinds
    /\ op = [name |-> "setTransform", args |-> <<transform>>]
    /\ left = MaxDrawOps

NextDraw ==
    \/ \E a \in {ModeHAND, ModeFIGURE, ModeTRANSFORM} : SetMode(a)
    \/ \E q \in PointerSpots : PointerDown(q[1], q[2])
    \/ \E q \in PointerSpots : PointerMove(q[1], q[2])
    \/ \E q \in PointerSpots : PointerUp(q[1], q[2])

SpecDraw == InitDraw /\ [][NextDraw]_vars

\* the transform calls on a stack of layers with HAND strokes, from the
\* constructed scene
InitTransforms ==
    /\ Constructed
    /\ mode = ModeHAND
    /\ figure = "rectangle"
    /\ transform = "translate"
    /\ op = [name |-> "new", args |-> <<>>]
    /\ left = MaxTransformOps

NextTransforms ==
    \/ AddLayer
    \/ \E n \in LayerArgs : SelectLayer(n)
    \/ \E a \in TranslateAmounts : Translate(a[1], a[2])
    \/ \E a \in ScaleAmounts : Scale(a[1], a[2])
    \/ \E d \in RotateDegrees : Rotate(d)
    \/ \E t \in TransformCalls : TransformCall(t[1], t[2])
    \/ \E q \in PointerSpots : PointerDown(q[1], q[2])
    \/ \E q \in PointerSpots : PointerMove(q[1], q[2])
    \/ \E q \in PointerSpots : PointerUp(q[1], q[2])

SpecTransforms == InitTransforms /\ [][NextTransforms]_vars

\* every operation of ArtCanvas, and clear / clearPaths on the active layer,
\* from the constructed scene
InitFrame ==
    /\ Constructed
    /\ mode = ModeHAND
    /\ figure = "rectangle"
    /\ transform = "translate"
    /\ op = [name |-> "new", args |-> <<>>]
    /\ left = MaxFrameOps

NextFrame ==
    \/ Next
    \/ Clear
    \/ ClearPaths

SpecFrame == InitFrame /\ [][NextFrame]_vars

\* setCallbacks with every argument, between changes of the mode
InitCallbacks ==
    /\ Constructed
    /\ mode = ModeHAND
    /\ figure = "rectangle"
    /\ transform = "translate"
    /\ op = [name |-> "new", args |-> <<>>]
    /\ left = MaxCallbackOps

NextCallbacks ==
    \/ \E a \in CallbackArgs : SetCallbacks(a)
    \/ \E a \in {ModeHAND, ModeFIGURE} : SetMode(a)

SpecCallbacks == InitCallbacks /\ [][NextCallbacks]_vars


----------------------------------------------------------------------------
(* Properties *)

\* the layer of the scene that holds Canvas object id, as a set (empty when
\* the layer was removed)
LayerOf(id) == {layers[i] : i \in {j \in 1..Len(layers) : layers[j].id = id}}

\* the last operation was the pointer-up that ends a gesture begun in mode m
\* during which the mode, the layer list and the active layer were not changed
GestureUp(m) ==
    /\ op.name = "pointerup"
    /\ gest.phase \in {"down", "ended"}
    /\ gest.mode = m
    /\ gest.pure

\* C1: no operation and no event handler, in any interleaving, raises an
\* error: every operation completes normally.
C1_NoOperationThrows == err = "none"

\* C2: whenever the layer list is non-empty, the active-layer index is in
\* [0, length), after any sequence of addLayer, removeLayer, selectLayer,
\* showLayer, hideLayer and setMode calls.
C2_ActiveLayerInRange ==
    layers # <<>> => activeLayer \in 0..(Len(layers) - 1)

\* C3: after each call of a sequence of addLayer and removeLayer calls (any
\* integer argument) from the constructed scene, the active-layer index is
\* within [0, layerCount) whenever layerCount > 0.
C3_AddRemoveKeepActiveInRange ==
    Len(layers) > 0 => (0 <= activeLayer /\ activeLayer < Len(layers))

C3_Witness ==
    /\ op.name = "removeLayer"
    /\ calls # <<>>
    /\ Len(layers) > 0
    /\ activeLayer = Len(layers) - 1

\* C4: removeLayer, selectLayer, showLayer and hideLayer called with an
\* index outside [0, layerCount) leave the layer list (each layer's
\* visibility included) and the active-layer index unchanged and invoke no
\* host callback.
C4_InvalidIndexIsNoOp ==
    [][(/\ op'.name \in {"removeLayer", "selectLayer", "showLayer", "hideLayer"}
        /\ op'.args[1] \notin 0..(Len(layers) - 1))
       => (/\ layers' = layers
           /\ activeLayer' = activeLayer
           /\ calls' = <<>>)]_vars

C4_Witness ==
    /\ op.name \in {"removeLayer", "selectLayer", "showLayer", "hideLayer"}
    /\ op.args[1] = Len(layers)
    /\ Len(layers) >= 2
    /\ calls = <<>>

\* C5: after the pointer-up of a FIGURE gesture (down, N >= 0 moves, up,
\* mode FIGURE throughout) the active layer's path list holds exactly one
\* entry more than before the down, and that entry is a finalized
\* Rectangle, Circle or Line, never a point array.
C5_FigureGestureCommitsOneShape ==
    GestureUp(ModeFIGURE) =>
        /\ err = "none"
        /\ gest.phase = "ended"
        /\ HasLayer(layers, activeLayer)
        /\ ActiveCanvas.id = gest.layer
        /\ Len(ActiveCanvas.paths) = Len(gest.before) + 1
        /\ Last(ActiveCanvas.paths).k \in {"rect", "circle", "line"}

C5_Witness ==
    /\ GestureUp(ModeFIGURE)
    /\ gest.phase = "ended"
    /\ gest.moves >= 1
    /\ gest.before # <<>>

\* C6: in every reachable state no entry of any layer's path list is a
\* provisional anchor / preview entry of a FIGURE or TRANSFORM gesture.
C6_NoPreviewInPaths ==
    \A i \in 1..Len(layers) : \A j \in 1..Len(layers[i].paths) :
        ~(/\ layers[i].paths[j].k = "pts"
          /\ layers[i].paths[j].by \in {ModeFIGURE, ModeTRANSFORM})

\* C7: after the pointer-up of a FIGURE gesture (any anchor, any release
\* point) the surface shows what replaying the post-commit path list
\* produces.
C7_SurfaceEqualsReplay ==
    (GestureUp(ModeFIGURE) /\ gest.phase = "ended") =>
        \A c \in LayerOf(gest.layer) : c.surface = Redraw(c).surface

\* C8: a FIGURE/RECTANGLE gesture with down at (ax, ay) and up at (ux, uy),
\* ux >= ax and uy >= ay, commits a Rectangle with left ax, top ay, width
\* ux - ax and height uy - ay.
C8_RectangleFields ==
    (/\ GestureUp(ModeFIGURE)
     /\ gest.phase = "ended"
     /\ figure = "rectangle"
     /\ gest.release.x >= gest.anchor.x
     /\ gest.release.y >= gest.anchor.y) =>
        \A c \in LayerOf(gest.layer) :
            /\ Last(c.paths).k = "rect"
            /\ Last(c.paths).left = gest.anchor.x
            /\ Last(c.paths).top = gest.anchor.y
            /\ Last(c.paths).width = gest.release.x - gest.anchor.x
            /\ Last(c.paths).height = gest.release.y - gest.anchor.y

\* C9: setMode with a string that is not one of hand, figure, text,
\* transform leaves the mode unchanged and does not invoke the changemode
\* callback.
C9_InvalidModeIgnored ==
    [][(op'.name = "setMode" /\ ToLowerCase(op'.args[1]) \notin Modes)
       => (/\ mode' = mode
           /\ \A i \in 1..Len(calls') : calls'[i].cb # "changemode")]_vars

\* C10: setFigure and setTransform called with a value outside their
\* enumeration leave the figure kind and the transform kind unchanged;
\* after any sequence of setter calls figure is one of rectangle / circle /
\* line and transform is one of translate / scale / rotate.
C10_KindSettersValidate ==
    /\ figure \in FigureKinds
    /\ transform \in TransformKinds
    /\ [][/\ figure' \in FigureKinds
          /\ transform' \in TransformKinds
          /\ (op'.name = "setFigure" /\ ToLowerCase(op'.args[1]) \notin FigureKinds)
                => (figure' = figure /\ transform' = transform)
          /\ (op'.name = "setTransform" /\ ToLowerCase(op'.args[1]) \notin TransformKinds)
                => (figure' = figure /\ transform' = transform)]_vars

C10_Witness ==
    /\ op.name = "setFigure"
    /\ op.args[1] = "hexagon"
    /\ figure = "line"
    /\ transform = "rotate"

\* C11: a pointer-move or pointer-up delivered while isDown is false is
\* ignored entirely: it changes no layer (shape list, TransformState and
\* surface included), not isDown, and invokes neither drawmove nor drawend
\* (no callback at all).
C11_IdleMoveUpIgnored ==
    [][(op'.name \in {"pointermove", "pointerup"} /\ ~isDown)
       => (/\ layers' = layers
           /\ isDown' = isDown
           /\ imagedata' = imagedata
           /\ textbox' = textbox
           /\ calls' = <<>>
           /\ err' = "none")]_vars

C11_Witness ==
    /\ op.name = "pointermove"
    /\ ~isDown
    /\ calls = <<>>
    /\ err = "none"
    /\ mode = ModeFIGURE
    /\ HasLayer(layers, activeLayer)
    /\ ActiveCanvas.paths # <<>>

\* C12: each drawmove and each drawend callback is preceded by a drawstart
\* callback with no drawend in between.
C12_DrawCallbacksOrdered ==
    [][(Invoked(calls', "drawmove") \/ Invoked(calls', "drawend")) => started]_vars

C12_Witness ==
    /\ op.name = "pointerup"
    /\ Invoked(calls, "drawend")
    /\ ~started
    /\ gest.moves >= 1
    /\ ~gest.pure

\* C13: every pointer-up delivered while a gesture is down leaves isDown
\* false, whatever the mode, figure kind, transform kind and active layer
\* are at that moment.
C13_UpEndsGesture ==
    [][(op'.name = "pointerup" /\ isDown) => ~isDown']_vars

\* C14: after a complete TRANSFORM gesture (down, N >= 0 moves, up, mode
\* TRANSFORM throughout, active layer unchanged) the active layer's path
\* list is identical to the list before the pointer-down.
C14_TransformGestureKeepsPaths ==
    GestureUp(ModeTRANSFORM) =>
        /\ err = "none"
        /\ gest.phase = "ended"
        /\ HasLayer(layers, activeLayer)
        /\ ActiveCanvas.id = gest.layer
        /\ ActiveCanvas.paths = gest.before

C14_Witness ==
    /\ GestureUp(ModeTRANSFORM)
    /\ gest.phase = "ended"
    /\ gest.moves >= 1
    /\ Len(gest.before) = 1
    /\ gest.before[1].by = ModeHAND
    /\ ActiveCanvas.transforms # IdentityTransforms

\* C15: a HAND gesture with pointer-down at p0, pointer-moves at p1..pN and
\* a pointer-up adds exactly one entry to the active layer's path list, the
\* point sequence [p0, p1, ..., pN]: the down opens it with p0, each move
\* appends its point at the end, the up changes no layer.
C15_HandGestureCommitsStroke ==
    /\ GestureUp(ModeHAND) =>
          /\ err = "none"
          /\ gest.phase = "ended"
          /\ HasLayer(layers, activeLayer)
          /\ ActiveCanvas.id = gest.layer
          /\ Front(ActiveCanvas.paths) = gest.before
          /\ Last(ActiveCanvas.paths).k = "pts"
          /\ Len(Last(ActiveCanvas.paths).pts) = gest.moves + 1
          /\ Last(ActiveCanvas.paths).pts[1] = gest.anchor
    /\ [][/\ (op'.name = "pointerdown" /\ mode = ModeHAND /\ HasLayer(layers, activeLayer)) =>
               layers'[activeLayer + 1].paths =
                   Append(ActiveCanvas.paths,
                          PointList(<<Point(op'.args[1], op'.args[2])>>, ModeHAND))
          /\ (op'.name = "pointermove" /\ isDown /\ gest.mode = ModeHAND /\ gest.pure
                   /\ mode = ModeHAND) =>
               layers'[activeLayer + 1].paths =
                   Append(Front(ActiveCanvas.paths),
                          [Last(ActiveCanvas.paths) EXCEPT
                              !.pts = Append(@, Point(op'.args[1], op'.args[2]))])
          /\ (op'.name = "pointerup" /\ mode = ModeHAND) => layers' = layers]_vars

C15_Witness ==
    /\ GestureUp(ModeHAND)
    /\ gest.phase = "ended"
    /\ gest.moves >= 2
    /\ gest.before # <<>>
    /\ Last(ActiveCanvas.paths).pts[2] # Last(ActiveCanvas.paths).pts[3]

\* C16: a pointer-down in TEXT mode opens a text capture at the pointer
\* position and returns early: it changes no layer's path list, does not
\* set isDown and does not invoke drawstart; the pointer-move and pointer-up
\* events that follow it in TEXT mode are ignored (no callback, no change of
\* isDown or of a layer).
C16_TextDownOpensCapture ==
    [][/\ (op'.name = "pointerdown" /\ mode = ModeTEXT) =>
            /\ layers' = layers
            /\ isDown' = isDown
            /\ ~Invoked(calls', "drawstart")
            /\ textbox'.open
            /\ ~textbox.open =>
                    textbox' = [open |-> TRUE, left |-> op'.args[1],
                                top |-> op'.args[2], value |-> ""]
       /\ (op'.name \in {"pointermove", "pointerup"} /\ mode = ModeTEXT
                /\ textbox.open) =>
            /\ layers' = layers
            /\ isDown' = isDown
            /\ calls' = <<>>]_vars

\* C17: at most one text capture is open at any time: a pointer-down in
\* TEXT mode while a capture is open leaves the capture, its position and
\* its content unchanged.
C17_SecondCaptureRefused ==
    [][(op'.name = "pointerdown" /\ mode = ModeTEXT /\ textbox.open)
       => textbox' = textbox]_vars

C17_Witness ==
    /\ op.name = "pointerdown"
    /\ mode = ModeTEXT
    /\ err = "none"
    /\ textbox.open
    /\ textbox.value = "hi"
    /\ <<textbox.left, textbox.top>> # op.args

\* C18: whenever setMode is called while a text capture is open, no capture
\* is open afterwards and exactly one Text with the capture's content and
\* position and the text style in effect is appended to the active layer's
\* path list.
C18_SetModeCommitsCapture ==
    [][(op'.name = "setMode" /\ textbox.open) =>
        /\ ~textbox'.open
        /\ HasLayer(layers', activeLayer')
        /\ textStyle.set
        /\ LET before == IF activeLayer' < Len(layers)
                         THEN layers[activeLayer' + 1].paths ELSE <<>>
           IN  layers'[activeLayer' + 1].paths =
                   Append(before,
                          Text(textbox.value,
                               Point(textbox.left, textbox.top + textStyle.size),
                               textStyle))]_vars

\* C19: every setMode call that enters TEXT mode appends exactly one new
\* layer with an empty path list and identity TransformState and makes it
\* the active layer; setMode to HAND, FIGURE or TRANSFORM changes neither
\* which layers the layer list holds nor the active index.
C19_TextModeAddsEmptyLayer ==
    [][op'.name = "setMode" =>
        /\ ToLowerCase(op'.args[1]) = ModeTEXT =>
              /\ Len(layers') = Len(layers) + 1
              /\ Front(layers') = layers
              /\ Last(layers').id \notin {layers[i].id : i \in 1..Len(layers)}
              /\ Last(layers').paths = <<>>
              /\ Last(layers').transforms = IdentityTransforms
              /\ activeLayer' = Len(layers') - 1
        /\ ToLowerCase(op'.args[1]) \in {ModeHAND, ModeFIGURE, ModeTRANSFORM} =>
              /\ [i \in 1..Len(layers') |-> layers'[i].id]
                     = [i \in 1..Len(layers) |-> layers[i].id]
              /\ activeLayer' = activeLayer]_vars

\* C20: setMode with a valid mode string (compared case-insensitively) sets
\* the mode to the lower-cased string and invokes the changemode callback
\* exactly once, with that string.
C20_ValidModeSetAndAnnounced ==
    [][(op'.name = "setMode" /\ ToLowerCase(op'.args[1]) \in Modes) =>
        /\ mode' = ToLowerCase(op'.args[1])
        /\ Cardinality({i \in 1..Len(calls') : calls'[i].cb = "changemode"}) = 1
        /\ \A i \in 1..Len(calls') :
              calls'[i].cb = "changemode" => calls'[i].mode = mode']_vars

\* the active layer of the next state
ActiveCanvasNext == layers'[activeLayer' + 1]

\* the last operation is a public translate / scale / rotate call
PublicTransform(o) == o.name \in {"translate", "scale", "rotate"}

\* the component a public transform call with arguments args stores
StoredAmount(name, args) ==
    CASE name = "translate" -> [x |-> args[1], y |-> args[2]]
      [] name = "scale" -> [x |-> args[1], y |-> args[2]]
      [] name = "rotate" -> DegreeAngle(args[1])

\* C21: a public translate(x, y), scale(x, y) or rotate(d) call sets the
\* corresponding component of the active layer's TransformState and redraws
\* the whole path list of that layer under the new mapping, without
\* changing the path list of any layer and without changing anything of a
\* non-active layer.
C21_PublicTransformFrame ==
    [][(PublicTransform(op') /\ HasLayer(layers, activeLayer)) =>
        /\ err' = "none"
        /\ activeLayer' = activeLayer
        /\ Len(layers') = Len(layers)
        /\ \A i \in 1..Len(layers) :
              /\ layers'[i].paths = layers[i].paths
              /\ i # activeLayer + 1 => layers'[i] = layers[i]
        /\ ActiveCanvasNext.transforms[op'.name] = StoredAmount(op'.name, op'.args)
        /\ ActiveCanvasNext.surface =
              DrawPaths(ActiveCanvas.paths,
                        Mapping(ActiveCanvasNext.transforms, op'.name,
                                getCenterPoint(ActiveCanvas.paths)))]_vars

C21_Witness ==
    /\ op.name = "scale"
    /\ err = "none"
    /\ Len(layers) >= 2
    /\ activeLayer = 0
    /\ ActiveCanvas.transforms.scale = [x |-> Rat(2, 1), y |-> Rat(2, 1)]
    /\ ActiveCanvas.surface # <<>>
    /\ layers[2].transforms = IdentityTransforms

\* C22: a transform call is an absolute replace: translate(c, d) leaves
\* the stored translate at (c, d) whatever it was before (likewise scale
\* and rotate), and each kind replaces only its own component of the
\* TransformState.
C22_AbsoluteReplace ==
    [][(PublicTransform(op') /\ HasLayer(layers, activeLayer)) =>
        ActiveCanvasNext.transforms =
            [ActiveCanvas.transforms EXCEPT
                ![op'.name] = StoredAmount(op'.name, op'.args)]]_vars

C22_Witness ==
    /\ op = [name |-> "translate", args |-> <<3, 0>>]
    /\ err = "none"
    /\ ActiveCanvas.transforms.translate = [x |-> 3, y |-> 0]
    /\ ActiveCanvas.transforms.scale = [x |-> Rat(1, 2), y |-> Rat(1, 1)]
    /\ ActiveCanvas.transforms.rotate = DegreeAngle(180)
    /\ gest.phase = "ended"

\* an amount parseFloat finds no number in
NonNumeric(r) == r.t = "undef" \/ (r.t = "str" /\ r.s \notin {"2px"})

\* the amounts a kind requires
Required(type) == IF ToLowerCase(type) = "rotate" THEN 1 ELSE 2

\* the call has an unknown kind, too few amounts or a non-numeric amount
Rejected(type, raws) ==
    \/ ToLowerCase(type) \notin TransformKinds
    \/ Len(raws) < Required(type)
    \/ \E i \in 1..Required(type) : NonNumeric(raws[i])

\* C23: Canvas.transform called with an unknown kind, with fewer amounts
\* than the kind requires, or with a non-numeric amount leaves the layer's
\* TransformState (translate, scale, skew, rotate) unchanged.
C23_RejectedTransformKeepsState ==
    [][(op'.name = "transform" /\ HasLayer(layers, activeLayer)
            /\ Rejected(op'.args[1], op'.args[2])) =>
        /\ err' = "none"
        /\ \A i \in 1..Len(layers) : layers'[i].transforms = layers[i].transforms]_vars

C23_Witness ==
    /\ op.name = "transform"
    /\ op.args[1] = "scale"
    /\ Rejected(op.args[1], op.args[2])
    /\ HasLayer(layers, activeLayer)
    /\ ActiveCanvas.transforms.scale = [x |-> Rat(1, 2), y |-> Rat(1, 1)]
    /\ ActiveCanvas.transforms.translate = [x |-> 2, y |-> 1]

\* C27: applying the same transform call (same kind and amounts) twice in a
\* row to a layer with an unchanged path list yields the same TransformState
\* and the same drawn output as applying it once.
C27_SameCallTwice ==
    [][(PublicTransform(op') /\ op'.name = op.name /\ op'.args = op.args
            /\ err = "none") =>
        layers' = layers]_vars

C27_Witness ==
    /\ op.name = "rotate"
    /\ err = "none"
    /\ left = MaxTransformOps - 4
    /\ ActiveCanvas.surface # <<>>
    /\ ActiveCanvas.surface[1].m = Mapping(ActiveCanvas.transforms, "rotate",
                                           getCenterPoint(ActiveCanvas.paths))
    /\ ActiveCanvas.transforms = [IdentityTransforms EXCEPT !.rotate = DegreeAngle(90)]

\* the operation o, issued in the current state, is a transform operation:
\* a public translate / scale / rotate, a Canvas.transform call, or the
\* pointer-move of a TRANSFORM gesture
TransformOperation(o) ==
    \/ o.name \in {"translate", "scale", "rotate", "transform"}
    \/ o.name = "pointermove" /\ isDown /\ mode = ModeTRANSFORM

\* C24: only the transform operation mutates a TransformState: clear,
\* clearPaths, the style setters, HAND / FIGURE / TEXT gestures, setMode
\* and layer add / remove / select / show / hide leave the TransformState of
\* every layer that exists before and after the operation unchanged.
C24_OnlyTransformMutatesState ==
    [][~TransformOperation(op') =>
        \A i \in 1..Len(layers) : \A j \in 1..Len(layers') :
            layers'[j].id = layers[i].id =>
                layers'[j].transforms = layers[i].transforms]_vars

C24_Witness ==
    /\ op.name = "clear"
    /\ err = "none"
    /\ ActiveCanvas.paths # <<>>
    /\ ActiveCanvas.surface = <<>>
    /\ ActiveCanvas.transforms.translate = [x |-> 1, y |-> 2]

\* the matrix in effect after scale(2, 2) then rotate(90) on canvas c, and
\* after rotate(90) then scale(2, 2)
ScaleThenRotate(c) ==
    LET center == getCenterPoint(c.paths)
        r1 == TransformResult(c.transforms, center, "scale",
                              <<Num(Rat(2, 1)), Num(Rat(2, 1))>>)
    IN  TransformResult(r1.transforms, center, "rotate", <<Num(DegreeAngle(90))>>).matrix

RotateThenScale(c) ==
    LET center == getCenterPoint(c.paths)
        r1 == TransformResult(c.transforms, center, "rotate", <<Num(DegreeAngle(90))>>)
    IN  TransformResult(r1.transforms, center, "scale",
                        <<Num(Rat(2, 1)), Num(Rat(2, 1))>>).matrix

\* C25 as stated: from the identity TransformState, SCALE (2, 2) then
\* ROTATE 90 yields a pixel mapping different from ROTATE 90 then
\* SCALE (2, 2), for every path list, empty ones included.
C25_OrderAlwaysMatters ==
    \A i \in 1..Len(layers) :
        layers[i].transforms = IdentityTransforms =>
            ScaleThenRotate(layers[i]) # RotateThenScale(layers[i])

\* C25 as amended: from the identity TransformState, SCALE (2, 2) then
\* ROTATE 90 and ROTATE 90 then SCALE (2, 2) yield different pixel mappings
\* exactly when the pivot getCenterPoint computes from the path list is not
\* the origin; with an empty list or a pivot at the origin the two mappings
\* are equal.
C25_OrderMattersOffOrigin ==
    \A i \in 1..Len(layers) :
        layers[i].transforms = IdentityTransforms =>
            (ScaleThenRotate(layers[i]) # RotateThenScale(layers[i]))
                <=> (getCenterPoint(layers[i].paths) # Point(0, 0))

C25_Witness ==
    /\ op.name = "pointerup"
    /\ HasLayer(layers, activeLayer)
    /\ ActiveCanvas.transforms = IdentityTransforms
    /\ Len(ActiveCanvas.paths) >= 2
    /\ getCenterPoint(ActiveCanvas.paths) # Point(0, 0)
    /\ ScaleThenRotate(ActiveCanvas) # RotateThenScale(ActiveCanvas)

-----------------------------------------------------------------------------
\* C26: the transform pivot is the bounding-box center of the first shape
\* of the committed list (index 0 in the source), and the origin when the
\* list is empty.
C26_PivotIsFirstShapeCenter ==
    \A i \in 1..Len(layers) :
        getCenterPoint(layers[i].paths) =
            IF layers[i].paths = <<>> THEN Point(0, 0)
            ELSE PathCenter(layers[i].paths[1])

-----------------------------------------------------------------------------
\* C28: removeLayer with a valid index destroys the layer's surface: after
\* the call the canvas element of the removed layer is no longer attached to
\* the container.
C28_RemovedSurfaceDetached ==
    [][(op'.name = "removeLayer" /\ calls' # <<>>)
          => calls'[1].canvas \notin attached']_vars

-----------------------------------------------------------------------------
\* C29: setCallbacks rejects unknown keys and non-function values: the
\* callback table always has exactly the nine recognized keys, each bound
\* to a function.
C29_TableHasNineKeys ==
    /\ DOMAIN callbacks = CallbackKeys
    /\ \A k \in DOMAIN callbacks : IsFunction(callbacks[k])

-----------------------------------------------------------------------------
\* C30: every Rectangle in any layer's committed list has width >= 0 and
\* height >= 0, and every Circle has radius >= 0, after any sequence of
\* gestures.
C30_SizesNotNegative ==
    \A i \in 1..Len(layers) : \A j \in 1..Len(layers[i].paths) :
        LET e == layers[i].paths[j]
        IN  /\ e.k = "rect" => (e.width >= 0 /\ e.height >= 0)
            /\ e.k = "circle" => e.radiusSq >= 0

\* a rectangle gesture released left of and above its anchor has committed
\* a Rectangle of width 0
C30_Witness ==
    /\ GestureUp(ModeFIGURE)
    /\ gest.phase = "ended"
    /\ figure = "rectangle"
    /\ gest.release.x < gest.anchor.x
    /\ HasLayer(layers, activeLayer)
    /\ ActiveCanvas.paths # <<>>
    /\ Last(ActiveCanvas.paths).k = "rect"
    /\ Last(ActiveCanvas.paths).width = 0

-----------------------------------------------------------------------------
\* C31: the pixel mapping is composed in a kind-dependent order.  A
\* TRANSLATE or SCALE call issues rotate-about-pivot (with the stored
\* rotation) and then translate+scale; a ROTATE call issues the stored
\* translate+scale and then rotate-about-pivot with the new rotation.  In
\* both cases the surface afterwards shows the replay of the whole path
\* list under that mapping and nothing else.
C31_KindDependentOrder ==
    [][(/\ HasLayer(layers, activeLayer)
        /\ \/ PublicTransform(op')
           \/ op'.name = "transform" /\ ToLowerCase(op'.args[1]) \in TransformKinds) =>
        LET kind == IF op'.name = "transform" THEN ToLowerCase(op'.args[1]) ELSE op'.name
            tr == ActiveCanvasNext.transforms
            center == getCenterPoint(ActiveCanvas.paths)
            pivot == <<[f |-> "translate", x |-> center.x, y |-> center.y],
                       [f |-> "rotate", a |-> tr.rotate],
                       [f |-> "translate", x |-> -center.x, y |-> -center.y]>>
            affine == <<[f |-> "affine", sx |-> tr.scale.x, sy |-> tr.scale.y,
                         tx |-> tr.translate.x, ty |-> tr.translate.y]>>
        IN  ActiveCanvasNext.surface =
                DrawPaths(ActiveCanvas.paths,
                          IF kind = "rotate" THEN affine \o pivot ELSE pivot \o affine)]_vars

\* a translate call on a rotated layer has redrawn a shape: the rotation
\* about the pivot is issued first, the translation last
C31_Witness ==
    /\ op.name = "translate"
    /\ err = "none"
    /\ HasLayer(layers, activeLayer)
    /\ ActiveCanvas.transforms.rotate = DegreeAngle(90)
    /\ ActiveCanvas.surface # <<>>
    /\ Len(ActiveCanvas.surface[1].m) = 4
    /\ ActiveCanvas.surface[1].m[2] = [f |-> "rotate", a |-> DegreeAngle(90)]
    /\ ActiveCanvas.surface[1].m[4].f = "affine"
    /\ ActiveCanvas.surface[1].m[4].tx = op.args[1]

-----------------------------------------------------------------------------
\* C32: during a TRANSFORM gesture with kind TRANSLATE, after each
\* pointer-move at (x, y) the active layer's stored translate is
\* (x - ax, y - ay), (ax, ay) being the pointer-down anchor of the gesture,
\* whatever translate was stored before; the stored scale and rotate are
\* not changed by the move.
C32_TranslateGestureFromAnchor ==
    [][(/\ op'.name = "pointermove"
        /\ isDown
        /\ mode = ModeTRANSFORM
        /\ transform = "translate"
        /\ gest.phase = "down"
        /\ gest.mode = ModeTRANSFORM
        /\ gest.pure) =>
        /\ err' = "none"
        /\ HasLayer(layers', activeLayer')
        /\ ActiveCanvasNext.transforms =
              [ActiveCanvas.transforms EXCEPT
                  !.translate = [x |-> op'.args[1] - gest.anchor.x,
                                 y |-> op'.args[2] - gest.anchor.y]]]_vars

\* the second move of a translate gesture on a rotated layer that already
\* had a translate stored before the gesture
C32_Witness ==
    /\ op.name = "pointermove"
    /\ err = "none"
    /\ mode = ModeTRANSFORM
    /\ transform = "translate"
    /\ gest.phase = "down"
    /\ gest.pure
    /\ gest.moves >= 2
    /\ HasLayer(layers, activeLayer)
    /\ ActiveCanvas.transforms.translate =
          [x |-> op.args[1] - gest.anchor.x, y |-> op.args[2] - gest.anchor.y]
    /\ ActiveCanvas.transforms.translate # [x |-> 0, y |-> 0]

-----------------------------------------------------------------------------
\* C33: a gesture mutates only the layer that was active at its
\* pointer-down, even when selectLayer, addLayer, removeLayer or setMode is
\* called between the pointer-down and the pointer-up: a pointer-move or
\* pointer-up of the gesture leaves the path list of every other layer as
\* it is.
C33_GestureStaysOnItsLayer ==
    [][(op'.name \in {"pointermove", "pointerup"} /\ isDown /\ gest.phase = "down") =>
        /\ Len(layers') = Len(layers)
        /\ \A i \in 1..Len(layers) :
              layers[i].id # gest.layer => layers'[i].paths = layers[i].paths]_vars

-----------------------------------------------------------------------------
\* C34: every redraw shows the committed shapes under the layer's
\* TransformState: after setFillStyle, setStrokeStyle or setLineWidth on a
\* layer with a non-identity TransformState every shape on the surface is
\* drawn through the pixel mapping of a transform call on that state (of
\* some kind), not through the identity mapping.
C34_RedrawKeepsMapping ==
    [][(/\ op'.name \in {"setFillStyle", "setStrokeStyle", "setLineWidth"}
        /\ HasLayer(layers, activeLayer)
        /\ ActiveCanvas.transforms # IdentityTransforms
        /\ ActiveCanvasNext.surface # ActiveCanvas.surface) =>
        \A k \in 1..Len(ActiveCanvasNext.surface) :
            \E kind \in TransformKinds :
                LET drawn == ActiveCanvasNext.surface[k].m
                    kept == Mapping(ActiveCanvas.transforms, kind,
                                    getCenterPoint(ActiveCanvas.paths))
                IN  MatrixOf(drawn, Len(drawn)) = MatrixOf(kept, Len(kept))]_vars

-----------------------------------------------------------------------------
\* C35: removeLayer(i) with a valid index i different from the active index
\* leaves the same layer active as before the call (the active index still
\* designates that layer), for i below and above the active index.
C35_RemoveOtherKeepsActiveSurface ==
    [][(/\ op'.name = "removeLayer"
        /\ calls' # <<>>
        /\ HasLayer(layers, activeLayer)
        /\ op'.args[1] # activeLayer) =>
        /\ HasLayer(layers', activeLayer')
        /\ ActiveCanvasNext.id = ActiveCanvas.id]_vars

-----------------------------------------------------------------------------
\* C36: addLayer appends exactly one new, empty layer at the end of the
\* layer list, makes it the active layer (active index = new length - 1),
\* leaves the existing layers and their order unchanged, and invokes the
\* addlayer callback exactly once, with the new layer and its index.
C36_AddLayerAppendsAndSelects ==
    [][op'.name = "addLayer" =>
        /\ err' = "none"
        /\ Len(layers') = Len(layers) + 1
        /\ SubSeq(layers', 1, Len(layers)) = layers
        /\ \A i \in 1..Len(layers) : layers[i].id # layers'[Len(layers')].id
        /\ layers'[Len(layers')].paths = <<>>
        /\ activeLayer' = Len(layers') - 1
        /\ calls' = <<[cb |-> "addlayer", canvas |-> layers'[Len(layers')].id,
                       index |-> Len(layers') - 1]>>]_vars

\* an addLayer after a removal: the layer kept from before is still first
C36_Witness ==
    /\ op.name = "addLayer"
    /\ err = "none"
    /\ Len(layers) = 2
    /\ layers[1].id = 2
    /\ activeLayer = 1
    /\ calls = <<[cb |-> "addlayer", canvas |-> layers[2].id, index |-> 1]>>

-----------------------------------------------------------------------------
\* C37: after a FIGURE / RECTANGLE gesture on an empty layer with anchor
\* (ax, ay) and a non-negative drag (w, h), the transform pivot computed
\* for that layer is (ax + floor(w / 2), ay + floor(h / 2)), the center of
\* the rectangle as it is drawn, for every anchor.
C37_PivotIsDrawnRectangleCenter ==
    (/\ GestureUp(ModeFIGURE)
     /\ gest.phase = "ended"
     /\ figure = "rectangle"
     /\ gest.before = <<>>
     /\ gest.release.x >= gest.anchor.x
     /\ gest.release.y >= gest.anchor.y) =>
        \A c \in LayerOf(gest.layer) :
            getCenterPoint(c.paths) =
                Point(gest.anchor.x + ((gest.release.x - gest.anchor.x) \div 2),
                      gest.anchor.y + ((gest.release.y - gest.anchor.y) \div 2))

-----------------------------------------------------------------------------
\* C38: after any sequence of addLayer and removeLayer calls the layers
\* have pairwise distinct z-index values that increase strictly with the
\* position in the layer list.
C38_ZIndexStrictlyIncreasing ==
    \A i \in 1..Len(layers) : \A j \in 1..Len(layers) :
        i < j => layers[i].zIndex < layers[j].zIndex

\* C39: save and restore are balanced: after every public operation the
\* number of context.save() calls issued on a layer equals the number of
\* context.restore() calls, so no saved state is left on its stack.
C39_SaveRestoreBalanced ==
    \A i \in 1..Len(layers) : layers[i].saved = 0


=============================================================================
